---- MODULE Spec2Model ----
(***************************************************************************)
(* Model of the /ask route of app.py (ask_vedanta): embed -> query Qdrant  *)
(* -> assemble context -> compose prompt -> generate -> clean invented     *)
(* references -> respond.                                                  *)
(*                                                                         *)
(* A text is a sequence of characters.  The literals "Ref:", "Class",      *)
(* "Unknown" and "Unknown Source" are kept as one element each; no other   *)
(* element is a part or a prefix of them, so matching element by element   *)
(* is the matching of the regular expressions character by character.      *)
(***************************************************************************)
EXTENDS Integers, Sequences, FiniteSets, TLC

\* ------------------------------------------------------------ bounds ----
\* most units one search returns in the model (the code asks for limit=5)
MaxUnits == 2
\* most fragments of a generated text in the request model
MaxGenFrags == 2
\* most fragments of a text given to the sanitizer model
MaxFrags == 4

\* ------------------------------------------------- characters, text ----
\* \s of the regular expressions and of str.strip()
IsSpace(c) == c = " "

\* \d of the regular expressions
IsDigit(c) == c \in {"3", "4"}

\* str(n) for a non-negative integer, as the f-string formats class_num
RECURSIVE Digits(_)
Digits(n) ==
    LET d == IF n % 10 = 3 THEN "3" ELSE IF n % 10 = 4 THEN "4" ELSE "?"
    IN  IF n < 10 THEN <<d>> ELSE Digits(n \div 10) \o <<d>>

\* first index j >= i that is past the end or holds no white space (greedy \s*)
RECURSIVE SkipSpace(_, _)
SkipSpace(s, i) ==
    IF i <= Len(s) /\ IsSpace(s[i]) THEN SkipSpace(s, i + 1) ELSE i

\* last index j <= i that is before the start or holds no white space
RECURSIVE SkipSpaceBack(_, _)
SkipSpaceBack(s, i) ==
    IF i >= 1 /\ IsSpace(s[i]) THEN SkipSpaceBack(s, i - 1) ELSE i

\* str.strip()
strip(s) == SubSeq(s, SkipSpace(s, 1), SkipSpaceBack(s, Len(s)))

\* the text s continues at index i with the literal r
StartsWith(s, i, r) ==
    /\ i + Len(r) - 1 <= Len(s)
    /\ SubSeq(s, i, i + Len(r) - 1) = r

\* index of the first ")" at or after i, 0 when there is none ([^)]*\) )
RECURSIVE FirstClose(_, _)
FirstClose(s, i) ==
    IF i > Len(s) THEN 0
    ELSE IF s[i] = ")" THEN i
    ELSE FirstClose(s, i + 1)

\* flatten a sequence of texts
RECURSIVE Concat(_)
Concat(ss) == IF ss = <<>> THEN <<>> ELSE Head(ss) \o Concat(Tail(ss))

\* all sequences over S of length 0..n
SeqUpTo(S, n) == UNION {[1..k -> S] : k \in 0..n}

\* the set of elements of a sequence
Range(f) == {f[i] : i \in DOMAIN f}

\* ------------------------------------------- step 6, the two re.sub ----
\* End of a citation  \(Ref:\s*Class\s*\d+[^)]*\)  that starts at index i of
\* s, 0 when there is none: the form the claims call "(Ref: Class <number> ...)"
CitationEnd(s, i) ==
    IF i + 1 <= Len(s) /\ s[i] = "(" /\ s[i + 1] = "Ref:"
    THEN LET p == SkipSpace(s, i + 2)
         IN  IF p <= Len(s) /\ s[p] = "Class"
             THEN LET q == SkipSpace(s, p + 1)
                  IN  IF q <= Len(s) /\ IsDigit(s[q])
                      THEN FirstClose(s, q + 1)
                      ELSE 0
             ELSE 0
    ELSE 0

\* InventedRefEnd with the look-ahead left out: every citation is deleted
NoLookaheadRefEnd(s, refs, i) == CitationEnd(s, i)

\* End of the match of  \(Ref:\s*(?!(valid_ref_pattern))Class\s*\d+[^)]*\)
\* that starts at index i of s, 0 when it does not match there.  \s* is
\* greedy and "Class" must follow it, so the look-ahead is tried only where
\* the white space ends; it fails when the text there starts with one of the
\* escaped references (valid_ref_pattern is their alternation).  [^)]* stops
\* at the first ")".
InventedRefEnd(s, refs, i) ==
    IF i + 1 <= Len(s) /\ s[i] = "(" /\ s[i + 1] = "Ref:"
    THEN LET p == SkipSpace(s, i + 2)
         IN  IF /\ p <= Len(s)
                /\ s[p] = "Class"
                /\ ~ \E k \in DOMAIN refs : StartsWith(s, p, refs[k])
             THEN LET q == SkipSpace(s, p + 1)
                  IN  IF q <= Len(s) /\ IsDigit(s[q])
                      THEN FirstClose(s, q + 1)
                      ELSE 0
             ELSE 0
    ELSE 0

\* re.sub(pattern 1, "", s): leftmost matches, not overlapping, left to right
RECURSIVE RemoveInventedFrom(_, _, _)
RemoveInventedFrom(s, refs, i) ==
    IF i > Len(s) THEN <<>>
    ELSE LET e == InventedRefEnd(s, refs, i)
         IN  IF e > 0 THEN RemoveInventedFrom(s, refs, e + 1)
             ELSE <<s[i]>> \o RemoveInventedFrom(s, refs, i + 1)

RemoveInvented(s, refs) == RemoveInventedFrom(s, refs, 1)

\* End of the match of  \s+\(\s*\)  that starts at index i of s, 0 when none
EmptyParenEnd(s, i) ==
    IF i <= Len(s) /\ IsSpace(s[i])
    THEN LET j == SkipSpace(s, i)
         IN  IF j <= Len(s) /\ s[j] = "("
             THEN LET k == SkipSpace(s, j + 1)
                  IN  IF k <= Len(s) /\ s[k] = ")" THEN k ELSE 0
             ELSE 0
    ELSE 0

\* re.sub(r"\s+\(\s*\)", "", s)
RECURSIVE RemoveEmptyParensFrom(_, _)
RemoveEmptyParensFrom(s, i) ==
    IF i > Len(s) THEN <<>>
    ELSE LET e == EmptyParenEnd(s, i)
         IN  IF e > 0 THEN RemoveEmptyParensFrom(s, e + 1)
             ELSE <<s[i]>> \o RemoveEmptyParensFrom(s, i + 1)

RemoveEmptyParens(s) == RemoveEmptyParensFrom(s, 1)

\* cleaned_answer of step 6, from raw_answer and valid_refs
CleanInventedRefs(raw, refs) == strip(RemoveEmptyParens(RemoveInvented(raw, refs)))

\* ------------------------------------------------ retrieved payloads ----
\* Get with the default left out: payload.get(key) gives None, printed "None"
GetNoDefault(payload, key, default) ==
    IF key \in DOMAIN payload THEN payload[key] ELSE [str |-> <<"None">>]

\* payload.get(key, default)
Get(payload, key, default) ==
    IF key \in DOMAIN payload THEN payload[key] ELSE default

\* an f-string field: an int class_num is formatted in decimal, a str as is
Format(v) == IF "int" \in DOMAIN v THEN Digits(v.int) ELSE v.str

\* ref = f"Class {class_num} - {title}"   ("-" stands for the en dash)
Ref(payload) ==
    LET title     == Get(payload, "title", [str |-> <<"Unknown Source">>])
        class_num == Get(payload, "class_num", [str |-> <<"Unknown">>])
    IN  <<"Class", " ">> \o Format(class_num) \o <<" ", "-", " ">> \o Format(title)

\* f"[{ref}]\n{content}"
ContextPart(payload) ==
    LET content == Get(payload, "content", [str |-> <<>>])
    IN  <<"[">> \o Ref(payload) \o <<"]", "\n">> \o Format(content)

\* "\n\n---\n\n".join(context_parts)
RECURSIVE Join(_)
Join(parts) ==
    IF parts = <<>> THEN <<>>
    ELSE IF Len(parts) = 1 THEN parts[1]
    ELSE parts[1] \o <<"\n\n---\n\n">> \o Join(Tail(parts))

\* payloads a stored unit can have: title and class_num present or missing,
\* class_num an int or a str; and a unit with no payload field at all
TitleValues == {[str |-> <<"T">>], [str |-> <<"T", "a", "a">>]}
ClassNumValues == {[int |-> 3], [str |-> <<"3", "4">>]}
ContentValue == [str |-> <<"c">>]

Payloads ==
    {[title |-> t, class_num |-> c, content |-> ContentValue] :
        t \in TitleValues, c \in ClassNumValues}
    \cup {[title |-> t, content |-> ContentValue] : t \in TitleValues}
    \cup {[class_num |-> c, content |-> ContentValue] : c \in ClassNumValues}
    \cup {[content |-> ContentValue], [k \in {} |-> ContentValue]}

\* ---------------------------------------------------- generated texts ----
OpenRef == <<"(", "Ref:", " ">>
InventedRef == <<"Class", " ", "3">>
Cite(r) == OpenRef \o r \o <<")">>

\* pieces of an answer: plain text, citations of the references the prompt
\* lists and a citation of a reference the prompt does not list
GenFrags(refs) ==
    {<<" ">>, <<"a">>, Cite(InventedRef)} \cup {Cite(refs[k]) : k \in DOMAIN refs}

\* the same, and the parts of citations on their own
Frags(refs) ==
    GenFrags(refs) \cup {<<"(">>, <<")">>, OpenRef, InventedRef}
        \cup {refs[k] : k \in DOMAIN refs}

Texts(frags, n) == {Concat(fs) : fs \in SeqUpTo(frags, n)}

Questions == {"q1", "q2"}
Errors == {"timeout", "refused"}
NoTeachings == <<"No relevant teachings found in the Qdrant collection.">>

\* -------------------------------------------------------- the request ----
VARIABLES
    pc,            \* where ask_vedanta is: idle, embed, search, generate, done
    query,         \* q.question
    query_vector,  \* what embed_text returned
    results,       \* response.points
    valid_refs,    \* the list built in step 3
    context,       \* the joined context_parts
    prompt,        \* the prompt of step 4
    raw_answer,    \* the stripped completion
    response,      \* what the route returns, or the HTTPException it raises
    calls,         \* the collaborators called so far in this request
    raised         \* the collaborator whose call raised, "none" if none did

vars == <<pc, query, query_vector, results, valid_refs, context, prompt,
          raw_answer, response, calls, raised>>

NoResponse == [pending |-> TRUE]

NoPrompt == [question |-> "", refs |-> <<>>, context |-> <<>>]

Init ==
    /\ pc = "idle"
    /\ query = ""
    /\ query_vector = <<>>
    /\ results = <<>>
    /\ valid_refs = <<>>
    /\ context = <<>>
    /\ prompt = NoPrompt
    /\ raw_answer = <<>>
    /\ response = NoResponse
    /\ calls = <<>>
    /\ raised = "none"

\* except Exception as e: raise HTTPException(status_code=500, detail=str(e))
HTTPException(e) == [status_code |-> 500, detail |-> e]

\* POST /ask arrives; steps 1 begins: embed_text(query) is called
Ask(q) ==
    /\ pc = "idle"
    /\ pc' = "embed"
    /\ query' = q
    /\ calls' = Append(calls, "embed")
    /\ UNCHANGED <<query_vector, results, valid_refs, context, prompt,
                   raw_answer, response, raised>>

\* Raise that reports what the request had built so far with the error
RaisePartial(at, e) ==
    /\ pc = at
    /\ pc' = "done"
    /\ raised' = at
    /\ response' = [question |-> query, sources_used |-> valid_refs, detail |-> e]
    /\ UNCHANGED <<query, query_vector, results, valid_refs, context, prompt,
                   raw_answer, calls>>

\* Raise that calls the failed collaborator again
RaiseRetry(at, e) ==
    /\ pc = at
    /\ calls' = Append(calls, at)
    /\ raised' = at
    /\ UNCHANGED <<pc, query, query_vector, results, valid_refs, context, prompt,
                   raw_answer, response>>

\* a collaborator call raises: the except clause ends the request
Raise(at, e) ==
    /\ pc = at
    /\ pc' = "done"
    /\ raised' = at
    /\ response' = HTTPException(e)
    /\ UNCHANGED <<query, query_vector, results, valid_refs, context, prompt,
                   raw_answer, calls>>

\* embed_text returns; step 2: qdrant.query_points is called
EmbedReturn ==
    /\ pc = "embed"
    /\ pc' = "search"
    /\ query_vector' = <<"vec", query>>
    /\ calls' = Append(calls, "search")
    /\ UNCHANGED <<query, results, valid_refs, context, prompt, raw_answer,
                   response, raised>>

\* SearchReturn without the "if not results" return
SearchReturnNoFallback(points) ==
    /\ pc = "search"
    /\ results' = points
    /\ LET refs  == [i \in DOMAIN points |-> Ref(points[i])]
           parts == [i \in DOMAIN points |-> ContextPart(points[i])]
       IN  /\ pc' = "generate"
           /\ valid_refs' = refs
           /\ context' = Join(parts)
           /\ prompt' = [question |-> query, refs |-> refs, context |-> Join(parts)]
           /\ calls' = Append(calls, "generate")
           /\ UNCHANGED response
    /\ UNCHANGED <<query, query_vector, raw_answer, raised>>

\* query_points returns points: the empty case returns at once, otherwise
\* steps 3 and 4 run and client.chat.completions.create is called
SearchReturn(points) ==
    /\ pc = "search"
    /\ results' = points
    /\ IF points = <<>>
       THEN /\ pc' = "done"
            /\ response' = [answer |-> NoTeachings]
            /\ UNCHANGED <<valid_refs, context, prompt, calls>>
       ELSE LET refs  == [i \in DOMAIN points |-> Ref(points[i])]
                parts == [i \in DOMAIN points |-> ContextPart(points[i])]
            IN  /\ pc' = "generate"
                /\ valid_refs' = refs
                /\ context' = Join(parts)
                /\ prompt' = [question |-> query, refs |-> refs,
                              context |-> Join(parts)]
                /\ calls' = Append(calls, "generate")
                /\ UNCHANGED response
    /\ UNCHANGED <<query, query_vector, raw_answer, raised>>

\* a list without its repeated entries, first occurrences kept
RECURSIVE Dedup(_)
Dedup(l) ==
    IF l = <<>> THEN <<>>
    ELSE LET front == Dedup(SubSeq(l, 1, Len(l) - 1))
         IN  IF l[Len(l)] \in Range(front) THEN front ELSE Append(front, l[Len(l)])

\* GenerateReturn that returns each source once
GenerateReturnDedup(content) ==
    /\ pc = "generate"
    /\ pc' = "done"
    /\ raw_answer' = strip(content)
    /\ response' = [question |-> query,
                    answer |-> CleanInventedRefs(strip(content), valid_refs),
                    sources_used |-> Dedup(valid_refs)]
    /\ UNCHANGED <<query, query_vector, results, valid_refs, context, prompt,
                   calls, raised>>

\* the completion returns content: step 6 cleans it and the route returns
GenerateReturn(content) ==
    /\ pc = "generate"
    /\ pc' = "done"
    /\ raw_answer' = strip(content)
    /\ response' = [question |-> query,
                    answer |-> CleanInventedRefs(strip(content), valid_refs),
                    sources_used |-> valid_refs]
    /\ UNCHANGED <<query, query_vector, results, valid_refs, context, prompt,
                   calls, raised>>

\* the response is sent; the locals of the request are gone
Return ==
    /\ pc = "done"
    /\ pc' = "idle"
    /\ query' = ""
    /\ query_vector' = <<>>
    /\ results' = <<>>
    /\ valid_refs' = <<>>
    /\ context' = <<>>
    /\ prompt' = NoPrompt
    /\ raw_answer' = <<>>
    /\ response' = NoResponse
    /\ calls' = <<>>
    /\ raised' = "none"

Next ==
    \/ \E q \in Questions : Ask(q)
    \/ EmbedReturn
    \/ \E e \in Errors : Raise("embed", e)
    \/ pc = "search" /\ \E points \in SeqUpTo(Payloads, MaxUnits) : SearchReturn(points)
    \/ \E e \in Errors : Raise("search", e)
    \/ pc = "generate" /\ \E content \in Texts(GenFrags(valid_refs), MaxGenFrags) :
                              GenerateReturn(content)
    \/ \E e \in Errors : Raise("generate", e)
    \/ Return

Spec == Init /\ [][Next]_vars

\* The sanitizer on its own: requests that have reached the generate call
\* with one of a few retrieval results, and texts made of finer pieces.
CleanPayloads ==
    {[title |-> t, class_num |-> [int |-> 3], content |-> ContentValue] :
        t \in TitleValues}

CleanResults ==
    {points \in SeqUpTo(CleanPayloads, 2) :
        points # <<>> /\ \A i, j \in DOMAIN points : i < j => points[i] # points[j]}

InitClean ==
    \E q \in {"q1"}, points \in CleanResults :
        /\ pc = "generate"
        /\ query = q
        /\ query_vector = <<"vec", q>>
        /\ results = points
        /\ valid_refs = [i \in DOMAIN points |-> Ref(points[i])]
        /\ context = Join([i \in DOMAIN points |-> ContextPart(points[i])])
        /\ prompt = [question |-> q,
                     refs |-> [i \in DOMAIN points |-> Ref(points[i])],
                     context |-> Join([i \in DOMAIN points |-> ContextPart(points[i])])]
        /\ raw_answer = <<>>
        /\ response = NoResponse
        /\ calls = <<"embed", "search", "generate">>
        /\ raised = "none"

NextClean ==
    pc = "generate" /\ \E content \in Texts(Frags(valid_refs), MaxFrags) :
                          GenerateReturn(content)

SpecClean == InitClean /\ [][NextClean]_vars

\* ------------------------------------------------------------ claims ----
\* the request ended with the full answer
Success == pc = "done" /\ "sources_used" \in DOMAIN response

\* the reference a citation at index i encloses: from the end of
\* "(Ref:" and the white space after it up to the closing parenthesis
EnclosedRef(s, i) == SubSeq(s, SkipSpace(s, i + 2), CitationEnd(s, i) - 1)

\* "(Ref: <ref>)" with <ref> one of refs starts at index i of s
ValidCiteAt(s, refs, i) ==
    /\ i + 1 <= Len(s) /\ s[i] = "(" /\ s[i + 1] = "Ref:"
    /\ LET p == SkipSpace(s, i + 2)
       IN  \E k \in DOMAIN refs :
               /\ StartsWith(s, p, refs[k])
               /\ p + Len(refs[k]) <= Len(s)
               /\ s[p + Len(refs[k])] = ")"

NumValidCites(s, refs) == Cardinality({i \in DOMAIN s : ValidCiteAt(s, refs, i)})

\* the indices of s the first substitution deletes
RECURSIVE DeletedFrom(_, _, _)
DeletedFrom(s, refs, i) ==
    IF i > Len(s) THEN {}
    ELSE LET e == InventedRefEnd(s, refs, i)
         IN  IF e > 0 THEN (i..e) \cup DeletedFrom(s, refs, e + 1)
             ELSE DeletedFrom(s, refs, i + 1)

\* the indices of s where a match deleted by the first substitution starts
RECURSIVE DeletedStartsFrom(_, _, _)
DeletedStartsFrom(s, refs, i) ==
    IF i > Len(s) THEN {}
    ELSE LET e == InventedRefEnd(s, refs, i)
         IN  IF e > 0 THEN {i} \cup DeletedStartsFrom(s, refs, e + 1)
             ELSE DeletedStartsFrom(s, refs, i + 1)

\* e occurs in w, at the start (prefix) or anywhere (substring), and is not w
ProperPartOf(e, w) ==
    /\ e # w
    /\ \E o \in 1..(Len(w) + 1) : StartsWith(w, o, e)

\* index i of s lies in a citation that starts earlier and whose text does
\* not begin with one of refs
InsideInvalidCitation(s, refs, i) ==
    \E j \in 1..(i - 1) :
        /\ CitationEnd(s, j) >= i
        /\ ~ \E k \in DOMAIN refs : StartsWith(s, SkipSpace(s, j + 2), refs[k])

HasDoubleSpace(s) == \E i \in 1..(Len(s) - 1) : IsSpace(s[i]) /\ IsSpace(s[i + 1])

HasEmptyParens(s) ==
    \E i \in DOMAIN s :
        /\ s[i] = "("
        /\ SkipSpace(s, i + 1) <= Len(s)
        /\ s[SkipSpace(s, i + 1)] = ")"

\* C1: every citation "(Ref: Class <number> ...)" left in the returned answer
\* encloses exactly one of the request's valid references.
C1_WhitelistSoundness ==
    Success =>
        \A i \in DOMAIN response.answer :
            CitationEnd(response.answer, i) > 0 =>
                \E k \in DOMAIN valid_refs :
                    EnclosedRef(response.answer, i) = valid_refs[k]

\* C2: cleaning the returned answer again with the same references leaves it
\* unchanged (the sanitizer is idempotent).
C2_Idempotent ==
    Success => CleanInventedRefs(response.answer, valid_refs) = response.answer

\* C7: when a citation was deleted from a raw answer that had no doubled white
\* space and no empty parentheses, the answer has neither.
C7_NoArtifacts ==
    ( /\ Success
      /\ DeletedFrom(raw_answer, valid_refs, 1) # {}
      /\ ~ HasDoubleSpace(raw_answer)
      /\ ~ HasEmptyParens(raw_answer) )
    => ( /\ ~ HasDoubleSpace(response.answer)
         /\ ~ HasEmptyParens(response.answer) )

\* C8: every citation of the raw answer whose reference is a proper prefix or
\* proper substring of a valid reference and equals none is deleted.
C8_PartialMatchDeleted ==
    Success =>
        \A i \in DOMAIN raw_answer :
            ( /\ CitationEnd(raw_answer, i) > 0
              /\ \E k \in DOMAIN valid_refs :
                     ProperPartOf(EnclosedRef(raw_answer, i), valid_refs[k])
              /\ \A k \in DOMAIN valid_refs :
                     EnclosedRef(raw_answer, i) # valid_refs[k] )
            => i \in DeletedFrom(raw_answer, valid_refs, 1)

\* C10 as stated: every citation of a valid reference in the raw answer is
\* still in the answer (none is deleted).
C10_EveryValidCiteKept ==
    Success =>
        NumValidCites(response.answer, valid_refs)
            >= NumValidCites(raw_answer, valid_refs)

\* C10 as amended: every citation of a valid reference that does not lie inside
\* an earlier citation of an invalid reference is still in the answer, and the
\* first substitution deletes no match that encloses a valid reference.
C10_ValidCiteKeptOutsideInvalid ==
    Success =>
        /\ NumValidCites(response.answer, valid_refs)
             >= Cardinality({i \in DOMAIN raw_answer :
                                /\ ValidCiteAt(raw_answer, valid_refs, i)
                                /\ ~ InsideInvalidCitation(raw_answer, valid_refs, i)})
        /\ \A i \in DeletedStartsFrom(raw_answer, valid_refs, 1) :
               \A k \in DOMAIN valid_refs :
                   EnclosedRef(raw_answer, i) # valid_refs[k]

\* a raw answer with a valid citation next to a deleted invalid one
C10_Witness ==
    /\ Success
    /\ DeletedFrom(raw_answer, valid_refs, 1) # {}
    /\ \E i \in DOMAIN raw_answer :
           /\ ValidCiteAt(raw_answer, valid_refs, i)
           /\ ~ InsideInvalidCitation(raw_answer, valid_refs, i)
    /\ NumValidCites(response.answer, valid_refs) > 0

\* the reference the claims give a unit: "Class {class_num} - {title}" with
\* "Unknown" and "Unknown Source" for the missing fields
ExpectedRef(payload) ==
    LET c == IF "class_num" \in DOMAIN payload
             THEN (IF "int" \in DOMAIN payload.class_num
                   THEN Digits(payload.class_num.int) ELSE payload.class_num.str)
             ELSE <<"Unknown">>
        t == IF "title" \in DOMAIN payload THEN payload.title.str
             ELSE <<"Unknown Source">>
    IN  <<"Class", " ">> \o c \o <<" ", "-", " ">> \o t

\* C3: when the search returns no unit, the generator is not called and the
\* response is exactly the fixed answer, with no other key.
C3_EmptyRetrievalFallback ==
    (pc \in {"generate", "done"} /\ raised = "none" /\ results = <<>>)
    => ( /\ pc = "done"
         /\ response = [answer |-> NoTeachings]
         /\ calls = <<"embed", "search">> )

C3_Witness ==
    /\ pc = "done" /\ raised = "none" /\ results = <<>>
    /\ response = [answer |-> NoTeachings]

\* C4: whichever collaborator raised, the request ends with status 500 and a
\* detail string, and nothing else of the request is returned.
C4_UniformFailure ==
    raised # "none" =>
        /\ pc = "done"
        /\ DOMAIN response = {"status_code", "detail"}
        /\ response.status_code = 500
        /\ response.detail \in Errors

\* the generator raised after the references and the context were built
C4_Witness ==
    /\ raised = "generate" /\ valid_refs # <<>>
    /\ response.status_code = 500

\* C5: sources_used has one entry per retrieved unit, in retrieval order,
\* duplicates kept: entry i is the reference of the i-th unit.
C5_SourcesInRetrievalOrder ==
    Success =>
        response.sources_used = [i \in DOMAIN results |-> ExpectedRef(results[i])]

\* two units with the same reference were retrieved and some citation was
\* deleted from the answer
C5_Witness ==
    /\ Success
    /\ Len(results) >= 2
    /\ \E i, j \in DOMAIN results :
           i < j /\ ExpectedRef(results[i]) = ExpectedRef(results[j])
    /\ response.answer # raw_answer
    /\ Len(response.sources_used) = Len(results)

\* C6: a unit without title or class_num gets the reference with the sentinel
\* defaults, and the request fails only when a collaborator raised.
C6_MissingFieldDefaults ==
    /\ results # <<>> =>
           /\ DOMAIN valid_refs = DOMAIN results
           /\ \A i \in DOMAIN results : valid_refs[i] = ExpectedRef(results[i])
    /\ "status_code" \in DOMAIN response => raised # "none"

\* a unit with no payload field at all was retrieved and the answer returned
C6_Witness ==
    /\ Success
    /\ \E i \in DOMAIN results : DOMAIN results[i] = {}
    /\ \E i \in DOMAIN results : DOMAIN results[i] = {"title", "content"}
    /\ <<"Class", " ", "Unknown", " ", "-", " ", "Unknown Source">> \in Range(response.sources_used)

\* C9: a step calls at most one collaborator, in the order embed, search,
\* generate, each once: search after embed returned, generate after the search
\* returned a unit, and none after a call raised.
C9_Step ==
    calls' # calls =>
        \/ pc = "done" /\ calls' = <<>>
        \/ /\ raised = "none" /\ raised' = "none"
           /\ \/ calls = <<>> /\ calls' = <<"embed">>
              \/ /\ calls = <<"embed">> /\ calls' = <<"embed", "search">>
                 /\ pc = "embed" /\ query_vector' # <<>>
              \/ /\ calls = <<"embed", "search">>
                 /\ calls' = <<"embed", "search", "generate">>
                 /\ pc = "search" /\ results' # <<>>

C9_SingleAttemptInOrder == [][C9_Step]_vars

\* all three were called and the last one raised
C9_Witness ==
    /\ pc = "done"
    /\ calls = <<"embed", "search", "generate">>
    /\ raised = "generate"

====
